---- MODULE Spec2Model ----
(***************************************************************************)
(* jsonFileDB (src/index.js): one handle of the class jsonFileDB, the      *)
(* storage files of its database folder, and the asynchronous calls in     *)
(* flight on the handle.                                                   *)
(*                                                                         *)
(* Execution model.  A call of an async method runs synchronously up to    *)
(* its first `await`; the rest (its continuation) runs later as a          *)
(* microtask, in the order the awaits were reached.  fs.writeFile hands    *)
(* the write to the I/O thread pool: the file is opened with flag "w"      *)
(* (created or truncated), then written from offset 0, then closed, and    *)
(* the callback runs on the event loop once no microtask is pending.       *)
(* The thread pool's steps interleave freely with the JavaScript steps.    *)
(***************************************************************************)
EXTENDS Integers, Sequences, FiniteSets, TLC

\* Number of asynchronous calls issued on the handle in one run.
MaxTasks == 2

Tasks == 1..MaxTasks

\* Names of the storages (collections) used by the callers.
Storages == {"s1", "s2"}

\* JavaScript's null and undefined.
Null == "null"
Undefined == "undefined"

\* Values that `!v` and `v || w` treat as false.
Falsy(v) == v \in {"", Null, Undefined}

\* Ids Math.random().toString(36) may produce.
GenIds == {"g1", "g2"}

(***************************************************************************)
(* Records (JavaScript objects) are functions from keys to values.         *)
(***************************************************************************)
Obj(r) == [k \in DOMAIN r |-> r[k]]

EmptyObj == [k \in {} |-> ""]

\* item[key]: undefined when the key is missing.
Prop(item, key) == IF key \in DOMAIN item THEN item[key] ELSE Undefined

\* item[key] = value
SetProp(item, key, value) ==
    [k \in DOMAIN item \cup {key} |-> IF k = key THEN value ELSE item[k]]

\* Matches with `some` in place of `every`.
Matches_Some(item, query) == \E key \in DOMAIN query : Prop(item, key) = query[key]

\* Object.keys(query).every((key) => item[key] === query[key])
Matches(item, query) == \A key \in DOMAIN query : Prop(item, key) = query[key]

\* The matched item replaced by updateData instead of merged with it.
Assign_Replace(item, updateData) == updateData

\* Object.keys(updateData).forEach((key) => { item[key] = updateData[key] })
Assign(item, updateData) ==
    [k \in DOMAIN item \cup DOMAIN updateData |->
        IF k \in DOMAIN updateData THEN updateData[k] ELSE item[k]]

(***************************************************************************)
(* File content is a sequence of tokens: "[", one token per object, "]".   *)
(***************************************************************************)
LBracket == [tok |-> "[", obj |-> EmptyObj]
RBracket == [tok |-> "]", obj |-> EmptyObj]
ObjToken(r) == [tok |-> "obj", obj |-> r]

\* JSON.stringify of one object: a key whose value is undefined is left out.
StringifyObj(r) == [k \in {j \in DOMAIN r : r[j] # Undefined} |-> r[k]]

\* JSON.stringify(data) for an array of objects.
Stringify(data) ==
    <<LBracket>> \o [i \in 1..Len(data) |-> ObjToken(StringifyObj(data[i]))]
                 \o <<RBracket>>

\* TRUE iff JSON.parse(text) returns (an array of objects) instead of throwing.
Parses(text) ==
    /\ Len(text) >= 2
    /\ text[1] = LBracket
    /\ text[Len(text)] = RBracket
    /\ \A i \in 2..(Len(text) - 1) : text[i].tok = "obj"

\* JSON.parse(text), for a text that parses.
Parse(text) == [i \in 1..(Len(text) - 2) |-> text[i + 1].obj]

\* A file of the database folder: absent, or present with its content.
NoFile == [exists |-> FALSE, text |-> <<>>]
File(text) == [exists |-> TRUE, text |-> text]

\* Writing `text` at offset 0 of a file opened without truncation since.
Overlay(old, text) == text \o SubSeq(old, Len(text) + 1, Len(old))

(***************************************************************************)
(* Inputs of the calls.                                                    *)
(***************************************************************************)
InsertInputs ==
    { Obj([id |-> "x", a |-> "1"]),
      Obj([id |-> "y", a |-> "2"]),
      Obj([a |-> "1"]),
      Obj([id |-> "", a |-> "2"]) }

Queries == { EmptyObj, Obj([a |-> "1"]) }

\* Queries of the find calls: those above, and one whose value is undefined.
FindQueries == Queries \cup { Obj([b |-> Undefined]) }

\* The queries given to delete.
DeleteQueries == FindQueries \cup { Obj([id |-> "x"]) }

\* <<query, updateData>> of the update calls.
UpdateInputs ==
    { <<Obj([a |-> "1"]), Obj([a |-> "2"])>>,
      <<EmptyObj, Obj([id |-> "y"])>>,
      <<Obj([id |-> "x"]), Obj([id |-> Undefined])>> }

\* Contents a storage file may have when the handle is constructed.
InitFiles ==
    { NoFile,
      File(Stringify(<<Obj([id |-> "x", a |-> "1"]), Obj([id |-> "y", a |-> "1"])>>)) }

\* Outcomes of a file write: done, or failed at open, or failed after the open.
WriteOutcomes == {"ok", "openFails", "writeFails"}

VARIABLES
    files,          \* storage name -> file of the database folder
    storage,        \* this.storage
    storagePath,    \* this.storagePath (the storage whose file it names)
    storageData,    \* this.storageData: the task whose `data` array it refers to, 0 for null
    lastInsertId,   \* this.lastInsertId
    tasks,          \* the asynchronous calls issued on the handle
    uncaught,       \* an exception was thrown out of a writeFile callback
    insertIdResult  \* what insertId() returned, when it is the latest call; else "none"

vars == <<files, storage, storagePath, storageData, lastInsertId, tasks,
          uncaught, insertIdResult>>

\* A call not yet issued.
Idle ==
    [ op     |-> "none",     \* insert, get, find, update, delete
      pc     |-> "idle",     \* idle, awaiting (at `await this.get()`), returned, threw
      arg    |-> EmptyObj,   \* insertData as passed, query, or get's storage
      patch  |-> EmptyObj,   \* updateData
      id     |-> Null,       \* the local `id` of insert
      prevId |-> Null,       \* this.lastInsertId when the call was issued
      loaded |-> FALSE,      \* this.get() resolved
      lpath  |-> Null,       \* the path this.get() read
      read   |-> <<>>,       \* the array this.get() resolved with
      data   |-> <<>>,       \* the local `data`, as mutated since
      result |-> <<>>,       \* the value the promise resolved with
      after  |-> {},         \* the calls already settled when this one was issued
      during |-> {},         \* the mutations in flight when this one was issued
      wr     |-> "none",     \* fs.writeFile: none, open, write, callback, done
      wpath  |-> Null,       \* path given to the write
      wtext  |-> <<>>,       \* text given to the write
      wout   |-> "none" ]    \* outcome of the write: none, ok, openFails, writeFails

Init ==
    /\ files \in [Storages -> InitFiles]
    /\ files["s2"] = NoFile
    /\ storage = Null
    /\ storagePath = Null
    /\ storageData = 0
    /\ lastInsertId = Null
    /\ tasks = [t \in Tasks |-> Idle]
    /\ uncaught = FALSE
    /\ insertIdResult = "none"

\* The calls whose promise is settled.
Settled == {u \in Tasks : tasks[u].pc \in {"returned", "threw"}}

\* t has loaded and its store has not completed yet.
InFlight(t) ==
    /\ tasks[t].op \in {"insert", "update", "delete"}
    /\ tasks[t].loaded
    /\ \/ tasks[t].pc = "awaiting"
       \/ tasks[t].wr \in {"open", "write"}

\* t is the next call to issue.
Fresh(t) ==
    /\ ~uncaught
    /\ tasks[t].pc = "idle"
    /\ \A u \in Tasks : u < t => tasks[u].pc # "idle"

\* t's continuation is the first in the microtask queue.
Runnable(t) ==
    /\ ~uncaught
    /\ tasks[t].pc = "awaiting"
    /\ \A u \in Tasks : u < t => tasks[u].pc # "awaiting"

\* setStorage writing "[]" without asking whether the file exists.
Materialized_Always(fs, s) == [fs EXCEPT ![s] = File(<<LBracket, RBracket>>)]

\* fs.existsSync / fs.writeFileSync(this.storagePath, "[]") of setStorage.
Materialized(fs, s) ==
    IF fs[s].exists THEN fs ELSE [fs EXCEPT ![s] = File(<<LBracket, RBracket>>)]

\* fs.readFileSync(path) and JSON.parse(data) both succeed.
Readable(fs, path) ==
    /\ path # Null
    /\ fs[path].exists
    /\ Parses(fs[path].text)

\* The array get() returns, or <<>> when it throws.
ReadData(fs, path) == IF Readable(fs, path) THEN Parse(fs[path].text) ELSE <<>>

\* The synchronous part of `await this.get()` inside insert/find/update/delete.
Load(t, op, arg, patch, id) ==
    /\ tasks' = [tasks EXCEPT ![t] =
            [Idle EXCEPT !.op = op, !.pc = "awaiting", !.arg = arg, !.patch = patch,
                         !.id = id,
                         !.loaded = Readable(files, storagePath),
                         !.prevId = lastInsertId,
                         !.lpath = storagePath,
                         !.read = ReadData(files, storagePath),
                         !.data = ReadData(files, storagePath),
                         !.after = Settled,
                         !.during = {u \in Tasks : InFlight(u)}]]
    /\ storageData' = IF Readable(files, storagePath) THEN t ELSE storageData

(***************************************************************************)
(* setStorage(storage)                                                     *)
(***************************************************************************)
SetStorage(s) ==
    /\ ~uncaught
    /\ storage' = s
    /\ storagePath' = s
    /\ files' = Materialized(files, s)
    /\ insertIdResult' = "none"
    /\ UNCHANGED <<storageData, lastInsertId, tasks, uncaught>>

(***************************************************************************)
(* get(storage = "")                                                       *)
(***************************************************************************)
\* get reading the file of s, or the current one, without calling setStorage.
Get_PureRead(t, s) ==
    /\ Fresh(t)
    /\ LET path == IF s # "" THEN s ELSE storagePath
       IN  /\ storageData' = IF Readable(files, path) THEN t ELSE storageData
           /\ tasks' = [tasks EXCEPT ![t] =
                  [Idle EXCEPT !.op = "get",
                               !.arg = Obj([storage |-> s]),
                               !.pc = IF Readable(files, path) THEN "returned" ELSE "threw",
                               !.loaded = Readable(files, path),
                               !.prevId = lastInsertId,
                               !.lpath = path,
                               !.read = ReadData(files, path),
                               !.data = ReadData(files, path),
                               !.result = ReadData(files, path),
                               !.after = Settled,
                               !.during = {u \in Tasks : InFlight(u)}]]
    /\ insertIdResult' = "none"
    /\ UNCHANGED <<files, storage, storagePath, lastInsertId, uncaught>>

Get(t, s) ==
    /\ Fresh(t)
    /\ LET path == IF s # "" THEN s ELSE storagePath
           fs == IF s # "" THEN Materialized(files, s) ELSE files
       IN  /\ storage' = IF s # "" THEN s ELSE storage
           /\ storagePath' = path
           /\ files' = fs
           /\ storageData' = IF Readable(fs, path) THEN t ELSE storageData
           /\ tasks' = [tasks EXCEPT ![t] =
                  [Idle EXCEPT !.op = "get",
                               !.arg = Obj([storage |-> s]),
                               !.pc = IF Readable(fs, path) THEN "returned" ELSE "threw",
                               !.loaded = Readable(fs, path),
                               !.prevId = lastInsertId,
                               !.lpath = path,
                               !.read = ReadData(fs, path),
                               !.data = ReadData(fs, path),
                               !.result = ReadData(fs, path),
                               !.after = Settled,
                         !.during = {u \in Tasks : InFlight(u)}]]
    /\ insertIdResult' = "none"
    /\ UNCHANGED <<lastInsertId, uncaught>>

(***************************************************************************)
(* insert(insertData)                                                      *)
(***************************************************************************)
\* ChooseId without the generator: the id is whatever insertData.id holds.
ChooseId_NeverGenerates(insertData, g) == Prop(insertData, "id")

\* insertData.id || Math.random()... , where the generator yields g
ChooseId(insertData, g) ==
    IF Falsy(Prop(insertData, "id")) THEN g ELSE insertData["id"]

\* insertData once `insertData.id = id` has run.
Inserted(t) == SetProp(tasks[t].arg, "id", tasks[t].id)

\* data.unshift(item) in place of data.push(item).
Push_Front(data, item) == <<item>> \o data

\* data.push(item)
Push(data, item) == Append(data, item)

\* insert without its `if (!this.storage)` check.
Insert_NoStorageCheck(t, insertData) ==
    /\ Fresh(t)
    /\ \E g \in GenIds :
          /\ lastInsertId' = ChooseId(insertData, g)
          /\ Load(t, "insert", insertData, EmptyObj, ChooseId(insertData, g))
    /\ insertIdResult' = "none"
    /\ UNCHANGED <<files, storage, storagePath, uncaught>>

Insert(t, insertData) ==
    /\ Fresh(t)
    /\ IF Falsy(storage)
       THEN /\ tasks' = [tasks EXCEPT ![t] =
                   [Idle EXCEPT !.op = "insert", !.pc = "threw", !.arg = insertData,
                                !.prevId = lastInsertId, !.after = Settled,
                                !.during = {u \in Tasks : InFlight(u)}]]
            /\ UNCHANGED <<lastInsertId, storageData>>
       ELSE \E g \in GenIds :
              /\ lastInsertId' = ChooseId(insertData, g)
              /\ Load(t, "insert", insertData, EmptyObj, ChooseId(insertData, g))
    /\ insertIdResult' = "none"
    /\ UNCHANGED <<files, storage, storagePath, uncaught>>

InsertResume(t) ==
    /\ Runnable(t)
    /\ tasks[t].op = "insert"
    /\ IF ~tasks[t].loaded
       THEN /\ tasks' = [tasks EXCEPT ![t].pc = "threw"]
            /\ UNCHANGED files
       ELSE LET data == Push(tasks[t].data, Inserted(t))
            IN  \E out \in WriteOutcomes :
                  /\ files' = CASE out = "ok" ->
                                     [files EXCEPT ![storagePath] = File(Stringify(data))]
                                [] out = "openFails" -> files
                                [] out = "writeFails" ->
                                     [files EXCEPT ![storagePath] = File(<<>>)]
                  /\ tasks' = [tasks EXCEPT ![t].data = data,
                                            ![t].pc = IF out = "ok" THEN "returned" ELSE "threw",
                                            ![t].result = IF out = "ok" THEN <<Inserted(t)>> ELSE <<>>,
                                            ![t].wpath = storagePath,
                                            ![t].wtext = Stringify(data),
                                            ![t].wout = out]
    /\ insertIdResult' = "none"
    /\ UNCHANGED <<storage, storagePath, storageData, lastInsertId, uncaught>>

(***************************************************************************)
(* insertId()                                                              *)
(***************************************************************************)
InsertId ==
    /\ ~uncaught
    /\ insertIdResult' = IF Falsy(lastInsertId) THEN "throws" ELSE lastInsertId
    /\ UNCHANGED <<files, storage, storagePath, storageData, lastInsertId, tasks, uncaught>>

(***************************************************************************)
(* find(query)                                                             *)
(***************************************************************************)
Find(t, query) ==
    /\ Fresh(t)
    /\ Load(t, "find", query, EmptyObj, Null)
    /\ insertIdResult' = "none"
    /\ UNCHANGED <<files, storage, storagePath, lastInsertId, uncaught>>

\* data.filter((item) => Object.keys(query).every(...))
Filter(data, query) == LET Test(item) == Matches(item, query) IN SelectSeq(data, Test)

\* The filter of delete returning true for every item.
Reject_KeepsAll(data, query) == data

\* The items the filter of delete keeps.
Reject(data, query) == LET Test(item) == ~Matches(item, query) IN SelectSeq(data, Test)

FindResume(t) ==
    /\ Runnable(t)
    /\ tasks[t].op = "find"
    /\ tasks' = [tasks EXCEPT
            ![t].pc = IF tasks[t].loaded THEN "returned" ELSE "threw",
            ![t].result = IF tasks[t].loaded THEN Filter(tasks[t].data, tasks[t].arg) ELSE <<>>]
    /\ insertIdResult' = "none"
    /\ UNCHANGED <<files, storage, storagePath, storageData, lastInsertId, uncaught>>

(***************************************************************************)
(* update(query, updateData)                                               *)
(***************************************************************************)
Update(t, query, updateData) ==
    /\ Fresh(t)
    /\ Load(t, "update", query, updateData, Null)
    /\ insertIdResult' = "none"
    /\ UNCHANGED <<files, storage, storagePath, lastInsertId, uncaught>>

\* An update keeping only the items it assigned to.
Patched_OnlyMatched(data, query, updateData) ==
    LET Test(item) == Matches(item, query)
        hit == SelectSeq(data, Test)
    IN  [i \in 1..Len(hit) |-> Assign(hit[i], updateData)]

\* data.forEach((item) => { if (matches) assign })
Patched(data, query, updateData) ==
    [i \in 1..Len(data) |->
        IF Matches(data[i], query) THEN Assign(data[i], updateData) ELSE data[i]]

UpdateResume(t) ==
    /\ Runnable(t)
    /\ tasks[t].op = "update"
    /\ IF ~tasks[t].loaded
       THEN tasks' = [tasks EXCEPT ![t].pc = "threw"]
       ELSE LET data == Patched(tasks[t].data, tasks[t].arg, tasks[t].patch)
            IN  tasks' = [tasks EXCEPT ![t].data = data,
                                       ![t].wr = "open",
                                       ![t].wpath = storagePath,
                                       ![t].wtext = Stringify(data),
                                       ![t].pc = "returned",
                                       ![t].result = data]
    /\ insertIdResult' = "none"
    /\ UNCHANGED <<files, storage, storagePath, storageData, lastInsertId, uncaught>>

(***************************************************************************)
(* delete(query)                                                           *)
(***************************************************************************)
Delete(t, query) ==
    /\ Fresh(t)
    /\ Load(t, "delete", query, EmptyObj, Null)
    /\ insertIdResult' = "none"
    /\ UNCHANGED <<files, storage, storagePath, lastInsertId, uncaught>>

DeleteResume(t) ==
    /\ Runnable(t)
    /\ tasks[t].op = "delete"
    /\ IF ~tasks[t].loaded
       THEN tasks' = [tasks EXCEPT ![t].pc = "threw"]
       ELSE tasks' = [tasks EXCEPT
                ![t].wr = "open",
                ![t].wpath = storagePath,
                ![t].wtext = Stringify(Reject(tasks[t].data, tasks[t].arg)),
                ![t].pc = "returned",
                ![t].result = Filter(tasks[t].data, tasks[t].arg)]
    /\ insertIdResult' = "none"
    /\ UNCHANGED <<files, storage, storagePath, storageData, lastInsertId, uncaught>>

(***************************************************************************)
(* fs.writeFile(path, text, callback) of update and delete, on the thread  *)
(* pool: open(path, "w"), write, close, then the callback.                 *)
(***************************************************************************)
WriteOpen(t) ==
    /\ ~uncaught
    /\ tasks[t].wr = "open"
    /\ \E opened \in BOOLEAN :
         IF opened
         THEN /\ files' = [files EXCEPT ![tasks[t].wpath] = File(<<>>)]
              /\ tasks' = [tasks EXCEPT ![t].wr = "write"]
         ELSE /\ files' = files
              /\ tasks' = [tasks EXCEPT ![t].wr = "callback", ![t].wout = "openFails"]
    /\ insertIdResult' = "none"
    /\ UNCHANGED <<storage, storagePath, storageData, lastInsertId, uncaught>>

WriteData(t) ==
    /\ ~uncaught
    /\ tasks[t].wr = "write"
    /\ \E written \in BOOLEAN :
         IF written
         THEN /\ files' = [files EXCEPT ![tasks[t].wpath] =
                               File(Overlay(files[tasks[t].wpath].text, tasks[t].wtext))]
              /\ tasks' = [tasks EXCEPT ![t].wr = "callback", ![t].wout = "ok"]
         ELSE /\ files' = files
              /\ tasks' = [tasks EXCEPT ![t].wr = "callback", ![t].wout = "writeFails"]
    /\ insertIdResult' = "none"
    /\ UNCHANGED <<storage, storagePath, storageData, lastInsertId, uncaught>>

\* (err) => { if (err) { throw new Error(err) } }
WriteCallback(t) ==
    /\ ~uncaught
    /\ tasks[t].wr = "callback"
    /\ \A u \in Tasks : tasks[u].pc # "awaiting"
    /\ tasks' = [tasks EXCEPT ![t].wr = "done"]
    /\ uncaught' = (tasks[t].wout # "ok")
    /\ insertIdResult' = "none"
    /\ UNCHANGED <<files, storage, storagePath, storageData, lastInsertId>>

Next ==
    \/ \E s \in Storages : SetStorage(s)
    \/ \E t \in Tasks, s \in Storages \cup {""} : Get(t, s)
    \/ \E t \in Tasks, insertData \in InsertInputs : Insert(t, insertData)
    \/ \E t \in Tasks : InsertResume(t)
    \/ InsertId
    \/ \E t \in Tasks, query \in FindQueries : Find(t, query)
    \/ \E t \in Tasks : FindResume(t)
    \/ \E t \in Tasks, in \in UpdateInputs : Update(t, in[1], in[2])
    \/ \E t \in Tasks : UpdateResume(t)
    \/ \E t \in Tasks, query \in DeleteQueries : Delete(t, query)
    \/ \E t \in Tasks : DeleteResume(t)
    \/ \E t \in Tasks : WriteOpen(t)
    \/ \E t \in Tasks : WriteData(t)
    \/ \E t \in Tasks : WriteCallback(t)

Spec == Init /\ [][Next]_vars

(***************************************************************************)
(* Vocabulary of the properties.                                           *)
(***************************************************************************)
Mutations == {"insert", "update", "delete"}
Reads == {"get", "find"}

\* v is a mutation that loaded from, or stored to, the file of storage s.
Touches(v, s) ==
    /\ tasks[v].op \in Mutations
    /\ tasks[v].lpath = s \/ tasks[v].wpath = s

\* t is the only mutation ever issued against storage s.
OnlyMutationOn(t, s) == \A v \in Tasks \ {t} : ~Touches(v, s)

\* The record set t stores: what its write puts on disk, decoded.
Post(t) == Parse(tasks[t].wtext)

\* Record r is an element of the array data.
Contains(data, r) == \E i \in 1..Len(data) : data[i] = r

(***************************************************************************)
(* C1: N inserts issued concurrently against one collection, each with its *)
(* own supplied id, leave exactly N more records in the file once they     *)
(* have all completed, one per supplied id.                                *)
(***************************************************************************)
ConcurrentInserts(S, s) ==
    /\ \A t \in S :
          /\ tasks[t].op = "insert"
          /\ tasks[t].pc = "returned"
          /\ tasks[t].lpath = s
          /\ tasks[t].wpath = s
          /\ "id" \in DOMAIN tasks[t].arg
          /\ tasks[t].id = tasks[t].arg["id"]
    /\ \A t, u \in S : t # u =>
          /\ tasks[t].id # tasks[u].id
          /\ t \in tasks[u].during \/ u \in tasks[t].during
    /\ \A v \in Tasks \ S : ~Touches(v, s)

C1_ConcurrentInsertsAllStored ==
    \A s \in Storages : \A S \in (SUBSET Tasks) \ {{}} :
        ConcurrentInserts(S, s) =>
            LET first == CHOOSE t \in S : \A u \in S : t <= u
            IN  /\ Readable(files, s)
                /\ Len(Parse(files[s].text)) = Len(tasks[first].read) + Cardinality(S)
                /\ \A t \in S : Contains(Parse(files[s].text), StringifyObj(Inserted(t)))

\* Two inserts with distinct supplied ids, issued concurrently, have both returned.
C1_Witness ==
    \E s \in Storages : \E S \in SUBSET Tasks :
        Cardinality(S) = 2 /\ ConcurrentInserts(S, s)

(***************************************************************************)
(* C2: no mutation loads the collection file between another mutation's    *)
(* load and its store: at most one mutation per collection is in flight.   *)
(***************************************************************************)
C2_MutationsSerialized ==
    \A t, u \in Tasks :
        (t # u /\ InFlight(t) /\ InFlight(u)) => tasks[t].lpath # tasks[u].lpath

C2_Witness ==
    \E t, u \in Tasks :
        t # u /\ InFlight(t) /\ InFlight(u) /\ tasks[t].lpath = tasks[u].lpath

(***************************************************************************)
(* C3: once update or delete has returned, a read or mutation issued       *)
(* afterwards on that collection loads the post-mutation record set.       *)
(***************************************************************************)
IssuedAfterReturn(u, t) ==
    /\ tasks[t].op \in {"update", "delete"}
    /\ tasks[t].pc = "returned"
    /\ tasks[t].wpath = tasks[t].lpath
    /\ tasks[u].op \in Reads \cup Mutations
    /\ t \in tasks[u].after
    /\ tasks[u].lpath = tasks[t].lpath
    /\ \A v \in Tasks \ {t, u} : ~Touches(v, tasks[t].lpath)

C3_ReadYourWrites ==
    \A t, u \in Tasks :
        IssuedAfterReturn(u, t) => (tasks[u].loaded /\ tasks[u].read = Post(t))

C3_Witness == \E t, u \in Tasks : IssuedAfterReturn(u, t)

(***************************************************************************)
(* C4: in every state the collection file is a complete well-formed JSON   *)
(* array of objects, never empty, truncated or partially written.          *)
(***************************************************************************)
C4_FileAlwaysWellFormed ==
    \A s \in Storages : files[s].exists => Parses(files[s].text)

C4_Witness == \E t \in Tasks : tasks[t].wr \in {"write", "callback", "done"}

(***************************************************************************)
(* C5: a read issued while a mutation of the same collection is in flight  *)
(* succeeds and returns the record set from before or after that mutation. *)
(***************************************************************************)
ReadDuring(u, t) ==
    /\ tasks[u].op \in Reads
    /\ t \in tasks[u].during
    /\ tasks[u].lpath = tasks[t].lpath
    /\ tasks[t].wpath \in {Null, tasks[t].lpath}
    /\ OnlyMutationOn(t, tasks[t].lpath)

C5_UnlockedReadSeesSnapshot ==
    \A t, u \in Tasks :
        ReadDuring(u, t) =>
            /\ tasks[u].loaded
            /\ \/ tasks[u].read = tasks[t].read
               \/ tasks[t].wtext # <<>> /\ tasks[u].read = Post(t)

C5_Witness == \E t, u \in Tasks : ReadDuring(u, t)

(***************************************************************************)
(* C6: when the file write of an update or delete fails, that call itself  *)
(* reports the failure: it does not return a result, and the error is not  *)
(* raised anywhere else.                                                   *)
(***************************************************************************)
StoreFailed(t) ==
    /\ tasks[t].op \in {"update", "delete"}
    /\ tasks[t].wout \in {"openFails", "writeFails"}

C6_StoreFailureReported ==
    \A t \in Tasks : StoreFailed(t) => (tasks[t].pc = "threw" /\ ~uncaught)

C6_Witness == \E t \in Tasks : StoreFailed(t)

(***************************************************************************)
(* C7: a failed insert leaves the handle's last-insert-id as it was before *)
(* the call, and the collection file as the insert loaded it.              *)
(***************************************************************************)
\* t is an insert that failed, and no insert was issued after it.
LastInsertFailed(t) ==
    /\ tasks[t].op = "insert"
    /\ tasks[t].pc = "threw"
    /\ \A u \in Tasks : u > t => tasks[u].op # "insert"

\* t failed at its store, and nothing else has written the file it loaded.
StoreFailedAlone(t) ==
    /\ tasks[t].loaded
    /\ tasks[t].wpath = tasks[t].lpath
    /\ OnlyMutationOn(t, tasks[t].lpath)

C7_FailedInsertKeepsLastInsertId ==
    \A t \in Tasks : LastInsertFailed(t) =>
        /\ lastInsertId = tasks[t].prevId
        /\ StoreFailedAlone(t) =>
              /\ Readable(files, tasks[t].lpath)
              /\ Parse(files[tasks[t].lpath].text) = tasks[t].read

C7_Witness == \E t \in Tasks : LastInsertFailed(t) /\ ~Falsy(tasks[t].id)

(***************************************************************************)
(* C8: with no insert pending, insertId() returns the id of the most       *)
(* recent successful insert, and throws when there is none.                *)
(***************************************************************************)
SuccessfulInserts == {t \in Tasks : tasks[t].op = "insert" /\ tasks[t].pc = "returned"}

NoInsertPending == \A t \in Tasks : tasks[t].op = "insert" => tasks[t].pc # "awaiting"

C8_InsertIdIsLastSuccessfulInsert ==
    (insertIdResult # "none" /\ NoInsertPending) =>
        IF SuccessfulInserts = {}
        THEN insertIdResult = "throws"
        ELSE LET last == CHOOSE t \in SuccessfulInserts : \A u \in SuccessfulInserts : u <= t
             IN  insertIdResult = tasks[last].id

C8_Witness ==
    /\ insertIdResult \notin {"none", "throws"}
    /\ NoInsertPending
    /\ SuccessfulInserts # {}

(***************************************************************************)
(* C9: insert returns the record as stored; an id supplied by the caller,  *)
(* whatever its value, is the id of the stored and returned record, and a  *)
(* record without id gets a non-empty generated one.                       *)
(***************************************************************************)
InsertReturned(t) == tasks[t].op = "insert" /\ tasks[t].pc = "returned"

C9_InsertKeepsSuppliedId ==
    \A t \in Tasks : InsertReturned(t) =>
        /\ tasks[t].result = <<Inserted(t)>>
        /\ Post(t)[Len(Post(t))] = Inserted(t)
        /\ ~Falsy(Inserted(t)["id"])
        /\ "id" \in DOMAIN tasks[t].arg => Inserted(t)["id"] = tasks[t].arg["id"]

C9_Witness == \E t \in Tasks : InsertReturned(t) /\ "id" \in DOMAIN tasks[t].arg

(***************************************************************************)
(* C10 as claimed: every record persisted in a collection file has an id   *)
(* field, and no two records of one collection have the same id.           *)
(***************************************************************************)
C10_IdsPresentAndUnique ==
    \A s \in Storages : Readable(files, s) =>
        LET data == Parse(files[s].text)
        IN  /\ \A i \in 1..Len(data) : "id" \in DOMAIN data[i]
            /\ \A i, j \in 1..Len(data) : i # j => data[i]["id"] # data[j]["id"]

(***************************************************************************)
(* C10 as amended: every record an insert stores has an id field with a    *)
(* non-empty value (uniqueness is not enforced, and update may overwrite   *)
(* or remove the field).                                                   *)
(***************************************************************************)
InsertStored(t) == tasks[t].op = "insert" /\ tasks[t].wout = "ok"

C10_InsertStoresId ==
    \A t \in Tasks : InsertStored(t) =>
        LET r == Post(t)[Len(Post(t))]
        IN  "id" \in DOMAIN r /\ ~Falsy(r["id"])

\* An insert of a record without id has stored.
C10_Witness == \E t \in Tasks : InsertStored(t) /\ "id" \notin DOMAIN tasks[t].arg

(***************************************************************************)
(* C11 as claimed: find(query) returns, in stored order, exactly the       *)
(* stored records that have every key of query with a value equal to the   *)
(* query's; with an empty query, all of them.                              *)
(***************************************************************************)
\* The record has every key of the query, with the query's value.
HasAll(item, query) ==
    \A key \in DOMAIN query : key \in DOMAIN item /\ item[key] = query[key]

Having(data, query) == LET Test(item) == HasAll(item, query) IN SelectSeq(data, Test)

FindReturned(t) == tasks[t].op = "find" /\ tasks[t].pc = "returned"

C11_FindReturnsRecordsHavingQuery ==
    \A t \in Tasks : FindReturned(t) =>
        tasks[t].result = Having(tasks[t].read, tasks[t].arg)

(***************************************************************************)
(* C11 as amended: find(query) returns, in stored order, exactly the       *)
(* stored records that, for every key of query, have the key with an equal *)
(* value or lack the key when the query's value is undefined; and no step  *)
(* of find changes a file.                                                 *)
(***************************************************************************)
HasAllDefined(item, query) ==
    \A key \in DOMAIN query :
        \/ key \in DOMAIN item /\ item[key] = query[key]
        \/ key \notin DOMAIN item /\ query[key] = Undefined

HavingDefined(data, query) ==
    LET Test(item) == HasAllDefined(item, query) IN SelectSeq(data, Test)

C11_FindSelectsAndKeepsFiles ==
    [][ \A t \in Tasks :
          (tasks'[t].op = "find" /\ tasks'[t] # tasks[t]) =>
              /\ files' = files
              /\ tasks'[t].pc = "returned" =>
                    tasks'[t].result = HavingDefined(tasks'[t].read, tasks'[t].arg)
      ]_vars

\* A find has returned some, not all, of the stored records.
C11_Witness ==
    \E t \in Tasks :
        /\ FindReturned(t)
        /\ Len(tasks[t].result) > 0
        /\ Len(tasks[t].result) < Len(tasks[t].read)

(***************************************************************************)
(* C12: a successful insert appends: the records it loaded stay unchanged  *)
(* and in order, the new record is the last element; inserts completed one *)
(* after the other leave the records in insertion order.                   *)
(***************************************************************************)
\* data is `before` followed by the one record r.
Appended(data, before, r) ==
    /\ Len(data) = Len(before) + 1
    /\ \A i \in 1..Len(before) : data[i] = before[i]
    /\ data[Len(data)] = r

\* t stored to the file it loaded, and no other mutation has touched that file.
StoredAlone(t) ==
    /\ tasks[t].wpath = tasks[t].lpath
    /\ OnlyMutationOn(t, tasks[t].lpath)

\* u was issued after t had returned; both inserts stored to the one file they
\* loaded, and no other mutation has touched it.
InsertedInTurn(t, u) ==
    /\ InsertStored(t) /\ InsertStored(u)
    /\ t \in tasks[u].after
    /\ tasks[t].wpath = tasks[t].lpath
    /\ tasks[u].wpath = tasks[u].lpath
    /\ tasks[u].lpath = tasks[t].lpath
    /\ \A v \in Tasks \ {t, u} : ~Touches(v, tasks[t].lpath)

C12_InsertAppends ==
    /\ \A t \in Tasks : InsertStored(t) =>
          /\ Appended(Post(t), tasks[t].read, Inserted(t))
          /\ StoredAlone(t) =>
                /\ Readable(files, tasks[t].lpath)
                /\ Parse(files[tasks[t].lpath].text) = Post(t)
    /\ \A t, u \in Tasks : InsertedInTurn(t, u) =>
          /\ Readable(files, tasks[t].lpath)
          /\ Appended(Parse(files[tasks[t].lpath].text), Post(t), Inserted(u))

C12_Witness == \E t, u \in Tasks : InsertedInTurn(t, u) /\ Len(tasks[t].read) > 0

(***************************************************************************)
(* C13 as claimed: update(query, patch) stores a record set of the same    *)
(* length and order as it loaded, in which every record matching query has *)
(* each patch key set to the patch value and its other keys unchanged, and *)
(* every other record is unchanged.                                        *)
(***************************************************************************)
\* The update t has run past its load and handed its record set to the write.
UpdateWrote(t) == tasks[t].op = "update" /\ tasks[t].wr # "none"

\* Record `post` is record `pre` with every key of patch set to patch's value.
PatchedBy(post, pre, patch) ==
    /\ DOMAIN post = DOMAIN pre \cup DOMAIN patch
    /\ \A k \in DOMAIN patch : post[k] = patch[k]
    /\ \A k \in DOMAIN pre \ DOMAIN patch : post[k] = pre[k]

C13_UpdateSetsEveryPatchKey ==
    \A t \in Tasks : UpdateWrote(t) =>
        /\ Len(Post(t)) = Len(tasks[t].read)
        /\ \A i \in 1..Len(tasks[t].read) :
              IF HasAllDefined(tasks[t].read[i], tasks[t].arg)
              THEN PatchedBy(Post(t)[i], tasks[t].read[i], tasks[t].patch)
              ELSE Post(t)[i] = tasks[t].read[i]

(***************************************************************************)
(* C13 as amended: the same, except that a patch key whose value is        *)
(* undefined is removed from the stored record; and once the write is done *)
(* with no other mutation on the file, the file holds that record set.     *)
(***************************************************************************)
PatchedOrRemovedBy(post, pre, patch) ==
    /\ DOMAIN post = (DOMAIN pre \cup DOMAIN patch) \ {k \in DOMAIN patch : patch[k] = Undefined}
    /\ \A k \in DOMAIN patch : patch[k] # Undefined => post[k] = patch[k]
    /\ \A k \in DOMAIN pre \ DOMAIN patch : post[k] = pre[k]

C13_UpdateMergesPatch ==
    \A t \in Tasks : UpdateWrote(t) =>
        /\ Len(Post(t)) = Len(tasks[t].read)
        /\ \A i \in 1..Len(tasks[t].read) :
              IF HasAllDefined(tasks[t].read[i], tasks[t].arg)
              THEN PatchedOrRemovedBy(Post(t)[i], tasks[t].read[i], tasks[t].patch)
              ELSE Post(t)[i] = tasks[t].read[i]
        /\ (tasks[t].wout = "ok" /\ StoredAlone(t)) =>
              /\ Readable(files, tasks[t].lpath)
              /\ Parse(files[tasks[t].lpath].text) = Post(t)

\* An update that matched some records and not others has written the file.
C13_Witness ==
    \E t \in Tasks :
        /\ UpdateWrote(t)
        /\ tasks[t].wout = "ok"
        /\ StoredAlone(t)
        /\ \E i, j \in 1..Len(tasks[t].read) :
              /\ HasAllDefined(tasks[t].read[i], tasks[t].arg)
              /\ ~HasAllDefined(tasks[t].read[j], tasks[t].arg)

(***************************************************************************)
(* C14: delete(query) returns exactly the loaded records that match query  *)
(* and stores exactly those that do not, both in their original order, so  *)
(* that returned and stored records together are the records loaded.       *)
(***************************************************************************)
NotHavingDefined(data, query) ==
    LET Test(item) == ~HasAllDefined(item, query) IN SelectSeq(data, Test)

\* The delete t has run past its load and handed the kept records to the write.
DeleteWrote(t) == tasks[t].op = "delete" /\ tasks[t].wr # "none"

C14_DeletePartitions ==
    \A t \in Tasks : DeleteWrote(t) =>
        /\ tasks[t].result = HavingDefined(tasks[t].read, tasks[t].arg)
        /\ Post(t) = NotHavingDefined(tasks[t].read, tasks[t].arg)
        /\ Len(tasks[t].result) + Len(Post(t)) = Len(tasks[t].read)
        /\ (tasks[t].wout = "ok" /\ StoredAlone(t)) =>
              /\ Readable(files, tasks[t].lpath)
              /\ Parse(files[tasks[t].lpath].text) = Post(t)

\* A delete that removed some records and kept others has written the file.
C14_Witness ==
    \E t \in Tasks :
        /\ DeleteWrote(t)
        /\ tasks[t].wout = "ok"
        /\ StoredAlone(t)
        /\ Len(tasks[t].result) > 0
        /\ Len(Post(t)) > 0

(***************************************************************************)
(* C15: update(query, patch) returns the full post-update record set,      *)
(* unmatched records as well as patched ones, and the returned set equals  *)
(* the set it stores.                                                      *)
(***************************************************************************)
UpdateReturned(t) == tasks[t].op = "update" /\ tasks[t].pc = "returned"

\* The returned array has one record per loaded record, the unmatched ones as
\* they were loaded.
FullSet(result, pre, query) ==
    /\ Len(result) = Len(pre)
    /\ \A i \in 1..Len(pre) : ~HasAllDefined(pre[i], query) => result[i] = pre[i]

\* As the claim states it: the returned records are the stored records.
C15_UpdateReturnsStoredSet ==
    \A t \in Tasks : UpdateReturned(t) =>
        /\ FullSet(tasks[t].result, tasks[t].read, tasks[t].arg)
        /\ tasks[t].result = Post(t)

\* The stored record of a returned one: its keys whose value is defined.
Defined(r) == [k \in {j \in DOMAIN r : r[j] # Undefined} |-> r[k]]

\* C15, amended: the returned set is full, and the stored set is the returned
\* one without the keys whose value is undefined.
C15_UpdateReturnsFullSet ==
    \A t \in Tasks : UpdateReturned(t) =>
        /\ FullSet(tasks[t].result, tasks[t].read, tasks[t].arg)
        /\ Len(Post(t)) = Len(tasks[t].result)
        /\ \A i \in 1..Len(tasks[t].result) : Post(t)[i] = Defined(tasks[t].result[i])
        /\ (tasks[t].wout = "ok" /\ StoredAlone(t)) =>
              /\ Readable(files, tasks[t].lpath)
              /\ Parse(files[tasks[t].lpath].text) = Post(t)

\* An update that patched some records and left others has been stored.
C15_Witness ==
    \E t \in Tasks :
        /\ UpdateReturned(t)
        /\ tasks[t].wout = "ok"
        /\ StoredAlone(t)
        /\ \E i, j \in 1..Len(tasks[t].read) :
              /\ HasAllDefined(tasks[t].read[i], tasks[t].arg)
              /\ tasks[t].result[i] # tasks[t].read[i]
              /\ ~HasAllDefined(tasks[t].read[j], tasks[t].arg)

(***************************************************************************)
(* C16: insert, get, find, update or delete attempted on a handle before a *)
(* storage has been selected fails with an error reported to the caller    *)
(* and leaves every file and the handle's state unchanged.                 *)
(***************************************************************************)
\* t was issued while no storage was selected (get(name) selects one itself).
OnUnboundHandle(tk) == tk.op # "none" /\ tk.lpath = Null

RunsSetStorage(s) == SetStorage(s) \/ \E t \in Tasks : Get(t, s)

C17_SetStorageMaterializesOnlyAbsent ==
    [][ \A s \in Storages : RunsSetStorage(s) =>
          /\ files'[s].exists
          /\ files[s].exists => files'[s] = files[s]
          /\ ~files[s].exists => /\ Parses(files'[s].text)
                                 /\ Parse(files'[s].text) = <<>>
          /\ \A o \in Storages \ {s} : files'[o] = files[o] ]_vars

\* The record an insert stored on one storage is in its file after the handle
\* was switched to another storage, whose file was created empty.
C17_Witness ==
    \E t \in Tasks, s \in Storages :
        /\ InsertStored(t)
        /\ tasks[t].lpath = s
        /\ tasks[t].wpath = s
        /\ storage \in Storages \ {s}
        /\ Readable(files, storage)
        /\ Parse(files[storage].text) = <<>>
        /\ Readable(files, s)
        /\ Contains(Parse(files[s].text), Inserted(t))

(***************************************************************************)
(* C18: a mutation only ever replaces the content of the file it loaded    *)
(* from: when the active storage is switched while an insert, update or    *)
(* delete started on storage S is pending, the mutation still writes S's   *)
(* file, and no other file is overwritten with records derived from S.     *)
(***************************************************************************)
C18_MutationWritesFileItLoaded ==
    \A t \in Tasks :
        (tasks[t].op \in Mutations /\ tasks[t].wpath # Null) =>
            tasks[t].wpath = tasks[t].lpath

\* The active storage was switched while a mutation that loaded its records
\* was waiting to resume.
C18_Witness ==
    \E t \in Tasks :
        /\ tasks[t].op \in Mutations
        /\ tasks[t].pc = "awaiting"
        /\ tasks[t].loaded
        /\ storagePath # tasks[t].lpath

(***************************************************************************)
(* C19: get(name) with a non-empty name makes name the active storage,     *)
(* creating its file as the empty array if absent, so the calls that       *)
(* follow operate on name's file until the storage is switched again;      *)
(* get() with no argument leaves the active storage unchanged.             *)
(***************************************************************************)
\* The step issues the call of slot t.
Issued(t) == tasks[t].op = "none" /\ tasks'[t].op # "none"

\* The step issues get with the storage argument s.
GetIssued(t, s) ==
    /\ Issued(t)
    /\ tasks'[t].op = "get"
    /\ tasks'[t].arg = Obj([storage |-> s])

C19_GetWithNameSwitchesStorage ==
    [][ /\ \A t \in Tasks, s \in Storages : GetIssued(t, s) =>
              /\ storage' = s
              /\ storagePath' = s
              /\ files'[s].exists
              /\ ~files[s].exists => Parse(files'[s].text) = <<>>
              /\ tasks'[t].lpath = s
        /\ \A t \in Tasks : GetIssued(t, "") =>
              /\ UNCHANGED <<storage, storagePath, files>>
              /\ tasks'[t].lpath = storagePath
        \* a call loads from the active storage, which only setStorage(s)
        \* and get(s) change
        /\ \A t \in Tasks :
              (Issued(t) /\ storage' # Null) => tasks'[t].lpath = storagePath'
        /\ \A t \in Tasks :
              (tasks[t].wpath = Null /\ tasks'[t].wpath # Null) =>
                  tasks'[t].wpath = storagePath
        /\ storage' # storage =>
              \E s \in Storages : storage' = s /\ RunsSetStorage(s) ]_vars

\* get(name) was called, and an insert issued after it returned has loaded
\* from and stored to the file of name.
C19_Witness ==
    \E t, u \in Tasks, s \in Storages :
        /\ tasks[t].op = "get"
        /\ tasks[t].arg = Obj([storage |-> s])
        /\ tasks[t].pc = "returned"
        /\ t \in tasks[u].after
        /\ InsertStored(u)
        /\ tasks[u].lpath = s
        /\ tasks[u].wpath = s
        /\ Readable(files, s)
        /\ Contains(Parse(files[s].text), Inserted(u))

====
